---- MODULE Spec2Model ----
(***************************************************************************)
(* EBS Snapshot Expiry Manager: one invocation of lambda_handler.          *)
(*                                                                         *)
(* Time is counted in half days (12 h ticks).  Money is written in         *)
(* thousandths of a dollar; the amounts are Python floats (IEEE 754        *)
(* doubles), kept as the expression that produced them and evaluated in    *)
(* binary where the binary value decides (a round() at a decimal tie).     *)
(* Remote services (EC2, Glacier, DynamoDB, SMTP, Secrets Manager) are     *)
(* the environment: each call picks one of the outcomes the call can have. *)
(***************************************************************************)
EXTENDS Integers, Sequences, FiniteSets

\* ------------------------------------------------------------------ bounds
\* at most this many snapshots are owned by the account over all regions
MaxSnapshots == 2
\* the clock advances at most this many ticks during one invocation
MaxTicks == 1
\* generate_summary is applied to sequences of at most this many records
MaxRecords == 3

\* ------------------------------------------------- environment value sets
\* SCAN_REGIONS.split(',')
Regions == <<"r1", "r2">>
\* RETENTION_DAYS values the environment may hold (the default)
RetentionChoices == {90}
\* EBS_SNAPSHOT_COST_PER_GB in thousandths of a dollar: the default 0.05
RateChoices == {50}
\* the rate of the manager generate_summary is tried on: 0.125, for which
\* 100 GiB cost 12.50 and 1 GiB costs 0.125, which round(., 2) takes to 0.12
AggRateChoices == {125}
\* ENABLE_AUTO_DELETE / ENABLE_GLACIER_ARCHIVE strings, as sequences of
\* code points: 'True' and 'false'
FlagChoices == {<<84, 114, 117, 101>>, <<102, 97, 108, 115, 101>>}
\* the snapshots describe_snapshots may list.  StartTime is in ticks relative
\* to the start of the invocation: one snapshot of 100 GiB that is 120 days
\* old, one of 1 GiB that is 90.5 days old (age 90 now, 91 one tick later)
Items == {[StartTime |-> -240, VolumeSize |-> 100],
          [StartTime |-> -181, VolumeSize |-> 1]}

\* outcomes of the remote calls
InventoryOutcomes == {"ok", "describe_error", "client_error"}
ArchiveOutcomes == {"ok", "vault_not_found", "upload_error", "client_error"}
DeleteOutcomes == {"ok", "delete_error", "client_error"}
PutOutcomes == {"ok", "put_error"}
SmtpOutcomes == {"ok", "smtp_error"}
ConstructOutcomes == {"ok", "resource_error"}

\* Python None; objects are records, so None is one too
NoValue == [none |-> TRUE]
NoId == <<0, 0>>

\* a Python str where None is possible too
Text(s) == [text |-> s]

\* what GmailNotifier.__init__ finds: GMAIL_USER and ALERT_RECEIVER in
\* os.environ (None when unset) and the password _get_gmail_password returns
\* ('' when the secret cannot be read or has no password)
MailChoices ==
  {[GMAIL_USER |-> Text("sender"), ALERT_RECEIVER |-> Text("ops"), password |-> Text("pw")],
   [GMAIL_USER |-> Text("sender"), ALERT_RECEIVER |-> Text("ops"), password |-> Text("")],
   [GMAIL_USER |-> NoValue, ALERT_RECEIVER |-> Text("ops"), password |-> Text("pw")],
   [GMAIL_USER |-> Text("sender"), ALERT_RECEIVER |-> NoValue, password |-> Text("pw")]}

VARIABLES
  env,          \* os.environ as read by SnapshotManager.__init__ and
                \* GmailNotifier.__init__, and the Gmail secret
  self,         \* the SnapshotManager fields, NoValue before construction
  clock,        \* datetime.now(timezone.utc), in ticks
  pc,           \* position of lambda_handler / run
  region_idx,   \* index in scan_regions of the region being scanned
  snapshots,    \* inventory of the region being scanned
  snap_idx,     \* index in snapshots of the snapshot being processed
  all_results,  \* run's all_results
  summary,      \* run's summary, NoValue before generate_summary
  response,     \* what lambda_handler returned, statusCode 0 before
  exc,          \* the exception in flight or caught: where it was raised
  trace,        \* every collaborator call made so far, in order, with
                \* what the caller saw of it
  best_effort_failed,  \* which of log_snapshot, log_summary, send_report
                       \* have returned False (run ignores the value)
  inventory     \* per region: how describe_snapshots went and what it listed

vars == <<env, self, clock, pc, region_idx, snapshots, snap_idx, all_results,
          summary, response, exc, trace, best_effort_failed, inventory>>

\* ----------------------------------------------------------- pure helpers
\* ------------------------------------------- naturals beyond 32 bits
\* A natural number is the sequence of its digits to the base 2^10, least
\* significant first, without zero digits at the top (0 is <<>>).
BaseBits == 10
Base == 1024
\* Pow2[n + 1] = 2^n
Pow2 == <<1, 2, 4, 8, 16, 32, 64, 128, 256, 512, 1024>>

RECURSIVE Digits(_)
Digits(n) == IF n = 0 THEN <<>> ELSE <<n % Base>> \o Digits(n \div Base)

RECURSIVE NatOf(_)
NatOf(a) == IF a = <<>> THEN 0 ELSE Head(a) + Base * NatOf(Tail(a))

Digit(a, i) == IF i >= 1 /\ i <= Len(a) THEN a[i] ELSE 0

RECURSIVE Normal(_)
Normal(a) ==
  IF a = <<>> \/ a[Len(a)] # 0 THEN a ELSE Normal(SubSeq(a, 1, Len(a) - 1))

\* number of binary digits
BitLen(a) ==
  IF a = <<>> THEN 0
  ELSE (Len(a) - 1) * BaseBits
       + Cardinality({j \in 1..BaseBits : Pow2[j] <= a[Len(a)]})

\* binary digit number n, the least significant being number 1
BitAt(a, n) ==
  (Digit(a, ((n - 1) \div BaseBits) + 1) \div Pow2[((n - 1) % BaseBits) + 1]) % 2

\* the n least significant binary digits are all zero
LowZero(a, n) ==
  /\ \A i \in 1..(n \div BaseBits) : Digit(a, i) = 0
  /\ Digit(a, (n \div BaseBits) + 1) % Pow2[(n % BaseBits) + 1] = 0

\* a * k + carry
RECURSIVE Times(_, _, _)
Times(a, k, carry) ==
  IF a = <<>> THEN Digits(carry)
  ELSE LET v == Head(a) * k + carry
       IN  Normal(<<v % Base>> \o Times(Tail(a), k, v \div Base))

\* a + b + carry
RECURSIVE Plus(_, _, _)
Plus(a, b, carry) ==
  IF a = <<>> /\ b = <<>> THEN Digits(carry)
  ELSE LET v == Digit(a, 1) + Digit(b, 1) + carry
       IN  <<v % Base>> \o Plus(IF a = <<>> THEN a ELSE Tail(a),
                                IF b = <<>> THEN b ELSE Tail(b), v \div Base)

\* a * 2^s
ShiftLeft(a, s) ==
  LET q == s \div BaseBits
      r == s % BaseBits
      low(i) == (Digit(a, i) % Pow2[BaseBits - r + 1]) * Pow2[r + 1]
      high(i) == Digit(a, i) \div Pow2[BaseBits - r + 1]
  IN  Normal([i \in 1..(Len(a) + q + 1) |->
                IF i <= q THEN 0 ELSE low(i - q) + high(i - q - 1)])

\* a \div 2^s
ShiftRight(a, s) ==
  LET q == s \div BaseBits
      r == s % BaseBits
  IN  Normal([i \in 1..(Len(a) - q) |->
                Digit(a, i + q) \div Pow2[r + 1]
                + (Digit(a, i + q + 1) % Pow2[r + 1]) * Pow2[BaseBits - r + 1]])

\* ------------------------------------------------ IEEE 754 doubles (>= 0)
\* A double is [sig, exp], the natural number sig times 2^exp, sig of at
\* most Precision binary digits.  The amounts of this program are far from
\* the overflow and subnormal ranges, which are left out.
Precision == 53
Zero == [sig |-> <<>>, exp |-> 0]

\* the double nearest to a * 2^e, ties to the even significand
RoundToDouble(a, e) ==
  IF BitLen(a) <= Precision THEN [sig |-> a, exp |-> e]
  ELSE LET drop == BitLen(a) - Precision
           kept == ShiftRight(a, drop)
           half == BitAt(a, drop) = 1
           sticky == ~LowZero(a, drop - 1)
           up == half /\ (sticky \/ BitAt(kept, 1) = 1)
           m == IF up THEN Plus(kept, <<>>, 1) ELSE kept
       IN  IF BitLen(m) > Precision
           THEN [sig |-> ShiftRight(m, 1), exp |-> e + drop + 1]
           ELSE [sig |-> m, exp |-> e + drop]

\* a + rem / d in binary, one digit to the base 2^10 at a time, until exact
\* or two binary digits past Precision, with one more binary digit standing
\* for what is left
RECURSIVE Quotient(_, _, _, _)
Quotient(a, e, rem, d) ==
  IF rem = 0 THEN [sig |-> a, exp |-> e]
  ELSE IF BitLen(a) >= Precision + 2 THEN [sig |-> Times(a, 2, 1), exp |-> e - 1]
  ELSE Quotient(Normal(<<(rem * Base) \div d>> \o a), e - BaseBits,
                (rem * Base) % d, d)

\* float('0.05'), a float literal, the float round() returns: the double
\* nearest to the decimal n / d
DecimalToDouble(n, d) ==
  LET q == Quotient(Digits(n \div d), 0, n % d, d)
  IN  RoundToDouble(q.sig, q.exp)

\* int * float
float_mul(k, x) ==
  IF k = 0 \/ x.sig = <<>> THEN Zero
  ELSE RoundToDouble(Times(x.sig, k, 0), x.exp)

\* float + float
float_add(x, y) ==
  IF x.sig = <<>> THEN y
  ELSE IF y.sig = <<>> THEN x
  ELSE LET e == IF x.exp < y.exp THEN x.exp ELSE y.exp
       IN  RoundToDouble(Plus(ShiftLeft(x.sig, x.exp - e),
                              ShiftLeft(y.sig, y.exp - e), 0), e)

\* round(x, 2) of the double x, in thousandths: the multiple of 0.01 nearest
\* to the binary value, ties to the even hundredth
round_double(x) ==
  LET a == Times(x.sig, 100, 0)
      s == -x.exp
  IN  IF x.sig = <<>> THEN 0
      ELSE IF s <= 0 THEN 10 * NatOf(ShiftLeft(a, -s))
      ELSE LET whole == NatOf(ShiftRight(a, s))
               half == BitAt(a, s) = 1
               sticky == ~LowZero(a, s - 1)
               up == half /\ (sticky \/ whole % 2 = 1)
           IN  10 * (IF up THEN whole + 1 ELSE whole)

\* --------------------------------------------------- the program's floats
\* A float of the program is kept as the expression that produced it: a
\* sequence of terms [factor, decimal], read as the left-to-right float sum
\* of factor * (the double nearest decimal / 1000).
Term(factor, decimal) == [factor |-> factor, decimal |-> decimal]

\* float(s) for the decimal string s, and the float round(., 2) returned
float(decimal) == <<Term(1, decimal)>>

\* the double the expression evaluates to (a sum starts from the int 0)
RECURSIVE Accumulate(_, _)
Accumulate(acc, x) ==
  IF x = <<>> THEN acc
  ELSE Accumulate(float_add(acc, float_mul(Head(x).factor,
                                           DecimalToDouble(Head(x).decimal, 1000))),
                  Tail(x))
Double(x) == Accumulate(Zero, x)

\* the same expression in exact decimal arithmetic, in thousandths
RECURSIVE Decimal(_)
Decimal(x) ==
  IF x = <<>> THEN 0 ELSE Head(x).factor * Head(x).decimal + Decimal(Tail(x))

SumCostOfFirst(rs) == IF rs = <<>> THEN <<>> ELSE float(Head(rs).EstimatedCost)

\* sum(r['EstimatedCost'] for r in rs)
SumCost(rs) == [k \in 1..Len(rs) |-> float(rs[k].EstimatedCost)[1]]

\* Python round(x, 2), in thousandths.  The double differs from the exact
\* decimal by rounding errors of relative size 2^-53, so off a decimal tie
\* both have the same nearest hundredth; at a decimal tie the binary value
\* decides (0.025 is a double above 0.025, 0.125 is a double and a tie).
round2(x) ==
  LET m == Decimal(x)
  IN  IF m % 10 < 5 THEN 10 * (m \div 10)
      ELSE IF m % 10 > 5 THEN 10 * (m \div 10 + 1)
      ELSE round_double(Double(x))

\* timedelta.days of (now - start_time): whole days, floored
calculate_snapshot_age(now, start_time) == (now - start_time) \div 2

\* size_gb * self.snapshot_cost_per_gb, the rate being a float(.) as such
estimate_cost(size_gb, snapshot_cost_per_gb) ==
  <<Term(size_gb, snapshot_cost_per_gb[1].decimal)>>

\* ---------------------------------------------------------- str.lower()
\* A str is the sequence of its code points.  The tables are those of the
\* Unicode 14.0 database of Python 3.11.
\* the characters with a lowercase mapping of one character, as runs
\* <<first, last, step, offset>>: first, first + step, ... up to last map
\* to themselves + offset
LowerRuns ==
  {<<65, 90, 1, 32>>, <<192, 222, 2, 32>>, <<193, 213, 2, 32>>, <<217, 221,
   2, 32>>, <<256, 302, 2, 1>>, <<306, 310, 2, 1>>, <<313, 327, 2, 1>>,
   <<330, 374, 2, 1>>, <<376, 376, 1, -121>>, <<377, 381, 2, 1>>, <<385,
   385, 1, 210>>, <<386, 388, 2, 1>>, <<390, 390, 1, 206>>, <<391, 391, 1,
   1>>, <<393, 394, 1, 205>>, <<395, 395, 1, 1>>, <<398, 398, 1, 79>>,
   <<399, 399, 1, 202>>, <<400, 400, 1, 203>>, <<401, 401, 1, 1>>, <<403,
   403, 1, 205>>, <<404, 404, 1, 207>>, <<406, 406, 1, 211>>, <<407, 407, 1,
   209>>, <<408, 408, 1, 1>>, <<412, 412, 1, 211>>, <<413, 413, 1, 213>>,
   <<415, 415, 1, 214>>, <<416, 420, 2, 1>>, <<422, 422, 1, 218>>, <<423,
   423, 1, 1>>, <<425, 425, 1, 218>>, <<428, 428, 1, 1>>, <<430, 430, 1,
   218>>, <<431, 431, 1, 1>>, <<433, 434, 1, 217>>, <<435, 437, 2, 1>>,
   <<439, 439, 1, 219>>, <<440, 440, 1, 1>>, <<444, 444, 1, 1>>, <<452, 452,
   1, 2>>, <<453, 453, 1, 1>>, <<455, 455, 1, 2>>, <<456, 456, 1, 1>>,
   <<458, 458, 1, 2>>, <<459, 475, 2, 1>>, <<478, 494, 2, 1>>, <<497, 497,
   1, 2>>, <<498, 500, 2, 1>>, <<502, 502, 1, -97>>, <<503, 503, 1, -56>>,
   <<504, 542, 2, 1>>, <<544, 544, 1, -130>>, <<546, 562, 2, 1>>, <<570,
   570, 1, 10795>>, <<571, 571, 1, 1>>, <<573, 573, 1, -163>>, <<574, 574,
   1, 10792>>, <<577, 577, 1, 1>>, <<579, 579, 1, -195>>, <<580, 580, 1,
   69>>, <<581, 581, 1, 71>>, <<582, 590, 2, 1>>, <<880, 882, 2, 1>>, <<886,
   886, 1, 1>>, <<895, 895, 1, 116>>, <<902, 902, 1, 38>>, <<904, 906, 1,
   37>>, <<908, 908, 1, 64>>, <<910, 911, 1, 63>>, <<913, 939, 2, 32>>,
   <<914, 928, 2, 32>>, <<932, 938, 2, 32>>, <<975, 975, 1, 8>>, <<984,
   1006, 2, 1>>, <<1012, 1012, 1, -60>>, <<1015, 1015, 1, 1>>, <<1017, 1017,
   1, -7>>, <<1018, 1018, 1, 1>>, <<1021, 1023, 1, -130>>, <<1024, 1039, 1,
   80>>, <<1040, 1071, 1, 32>>, <<1120, 1152, 2, 1>>, <<1162, 1214, 2, 1>>,
   <<1216, 1216, 1, 15>>, <<1217, 1229, 2, 1>>, <<1232, 1326, 2, 1>>,
   <<1329, 1366, 1, 48>>, <<4256, 4293, 1, 7264>>, <<4295, 4295, 1, 7264>>,
   <<4301, 4301, 1, 7264>>, <<5024, 5103, 1, 38864>>, <<5104, 5109, 1, 8>>,
   <<7312, 7354, 1, -3008>>, <<7357, 7359, 1, -3008>>, <<7680, 7828, 2, 1>>,
   <<7838, 7838, 1, -7615>>, <<7840, 7934, 2, 1>>, <<7944, 7951, 1, -8>>,
   <<7960, 7965, 1, -8>>, <<7976, 7983, 1, -8>>, <<7992, 7999, 1, -8>>,
   <<8008, 8013, 1, -8>>, <<8025, 8031, 2, -8>>, <<8040, 8047, 1, -8>>,
   <<8072, 8079, 1, -8>>, <<8088, 8095, 1, -8>>, <<8104, 8111, 1, -8>>,
   <<8120, 8121, 1, -8>>, <<8122, 8123, 1, -74>>, <<8124, 8124, 1, -9>>,
   <<8136, 8139, 1, -86>>, <<8140, 8140, 1, -9>>, <<8152, 8153, 1, -8>>,
   <<8154, 8155, 1, -100>>, <<8168, 8169, 1, -8>>, <<8170, 8171, 1, -112>>,
   <<8172, 8172, 1, -7>>, <<8184, 8185, 1, -128>>, <<8186, 8187, 1, -126>>,
   <<8188, 8188, 1, -9>>, <<8486, 8486, 1, -7517>>, <<8490, 8490, 1,
   -8383>>, <<8491, 8491, 1, -8262>>, <<8498, 8498, 1, 28>>, <<8544, 8559,
   1, 16>>, <<8579, 8579, 1, 1>>, <<9398, 9423, 1, 26>>, <<11264, 11311, 1,
   48>>, <<11360, 11360, 1, 1>>, <<11362, 11362, 1, -10743>>, <<11363,
   11363, 1, -3814>>, <<11364, 11364, 1, -10727>>, <<11367, 11371, 2, 1>>,
   <<11373, 11373, 1, -10780>>, <<11374, 11374, 1, -10749>>, <<11375, 11375,
   1, -10783>>, <<11376, 11376, 1, -10782>>, <<11378, 11378, 1, 1>>,
   <<11381, 11381, 1, 1>>, <<11390, 11391, 1, -10815>>, <<11392, 11490, 2,
   1>>, <<11499, 11501, 2, 1>>, <<11506, 11506, 1, 1>>, <<42560, 42604, 2,
   1>>, <<42624, 42650, 2, 1>>, <<42786, 42798, 2, 1>>, <<42802, 42862, 2,
   1>>, <<42873, 42875, 2, 1>>, <<42877, 42877, 1, -35332>>, <<42878, 42886,
   2, 1>>, <<42891, 42891, 1, 1>>, <<42893, 42893, 1, -42280>>, <<42896,
   42898, 2, 1>>, <<42902, 42920, 2, 1>>, <<42922, 42922, 1, -42308>>,
   <<42923, 42923, 1, -42319>>, <<42924, 42924, 1, -42315>>, <<42925, 42925,
   1, -42305>>, <<42926, 42926, 1, -42308>>, <<42928, 42928, 1, -42258>>,
   <<42929, 42929, 1, -42282>>, <<42930, 42930, 1, -42261>>, <<42931, 42931,
   1, 928>>, <<42932, 42946, 2, 1>>, <<42948, 42948, 1, -48>>, <<42949,
   42949, 1, -42307>>, <<42950, 42950, 1, -35384>>, <<42951, 42953, 2, 1>>,
   <<42960, 42960, 1, 1>>, <<42966, 42968, 2, 1>>, <<42997, 42997, 1, 1>>,
   <<65313, 65338, 1, 32>>, <<66560, 66599, 1, 40>>, <<66736, 66771, 1,
   40>>, <<66928, 66964, 2, 39>>, <<66929, 66937, 2, 39>>, <<66941, 66953,
   2, 39>>, <<66957, 66961, 2, 39>>, <<66965, 66965, 1, 39>>, <<68736,
   68786, 1, 64>>, <<71840, 71871, 1, 32>>, <<93760, 93791, 1, 32>>,
   <<125184, 125217, 1, 34>>}

\* the characters with the property Cased, as ranges <<first, last>>
CasedRanges ==
  {<<65, 90>>, <<97, 122>>, <<170, 170>>, <<181, 181>>, <<186, 186>>, <<192,
   214>>, <<216, 246>>, <<248, 442>>, <<444, 447>>, <<452, 659>>, <<661,
   696>>, <<704, 705>>, <<736, 740>>, <<837, 837>>, <<880, 883>>, <<886,
   887>>, <<890, 893>>, <<895, 895>>, <<902, 902>>, <<904, 906>>, <<908,
   908>>, <<910, 929>>, <<931, 1013>>, <<1015, 1153>>, <<1162, 1327>>,
   <<1329, 1366>>, <<1376, 1416>>, <<4256, 4293>>, <<4295, 4295>>, <<4301,
   4301>>, <<4304, 4346>>, <<4349, 4351>>, <<5024, 5109>>, <<5112, 5117>>,
   <<7296, 7304>>, <<7312, 7354>>, <<7357, 7359>>, <<7424, 7615>>, <<7680,
   7957>>, <<7960, 7965>>, <<7968, 8005>>, <<8008, 8013>>, <<8016, 8023>>,
   <<8025, 8025>>, <<8027, 8027>>, <<8029, 8029>>, <<8031, 8061>>, <<8064,
   8116>>, <<8118, 8124>>, <<8126, 8126>>, <<8130, 8132>>, <<8134, 8140>>,
   <<8144, 8147>>, <<8150, 8155>>, <<8160, 8172>>, <<8178, 8180>>, <<8182,
   8188>>, <<8305, 8305>>, <<8319, 8319>>, <<8336, 8348>>, <<8450, 8450>>,
   <<8455, 8455>>, <<8458, 8467>>, <<8469, 8469>>, <<8473, 8477>>, <<8484,
   8484>>, <<8486, 8486>>, <<8488, 8488>>, <<8490, 8493>>, <<8495, 8500>>,
   <<8505, 8505>>, <<8508, 8511>>, <<8517, 8521>>, <<8526, 8526>>, <<8544,
   8575>>, <<8579, 8580>>, <<9398, 9449>>, <<11264, 11492>>, <<11499,
   11502>>, <<11506, 11507>>, <<11520, 11557>>, <<11559, 11559>>, <<11565,
   11565>>, <<42560, 42605>>, <<42624, 42653>>, <<42786, 42887>>, <<42891,
   42894>>, <<42896, 42954>>, <<42960, 42961>>, <<42963, 42963>>, <<42965,
   42969>>, <<42997, 42998>>, <<43000, 43002>>, <<43824, 43866>>, <<43868,
   43880>>, <<43888, 43967>>, <<64256, 64262>>, <<64275, 64279>>, <<65313,
   65338>>, <<65345, 65370>>, <<66560, 66639>>, <<66736, 66771>>, <<66776,
   66811>>, <<66928, 66938>>, <<66940, 66954>>, <<66956, 66962>>, <<66964,
   66965>>, <<66967, 66977>>, <<66979, 66993>>, <<66995, 67001>>, <<67003,
   67004>>, <<67456, 67456>>, <<67459, 67461>>, <<67463, 67504>>, <<67506,
   67514>>, <<68736, 68786>>, <<68800, 68850>>, <<71840, 71903>>, <<93760,
   93823>>, <<119808, 119892>>, <<119894, 119964>>, <<119966, 119967>>,
   <<119970, 119970>>, <<119973, 119974>>, <<119977, 119980>>, <<119982,
   119993>>, <<119995, 119995>>, <<119997, 120003>>, <<120005, 120069>>,
   <<120071, 120074>>, <<120077, 120084>>, <<120086, 120092>>, <<120094,
   120121>>, <<120123, 120126>>, <<120128, 120132>>, <<120134, 120134>>,
   <<120138, 120144>>, <<120146, 120485>>, <<120488, 120512>>, <<120514,
   120538>>, <<120540, 120570>>, <<120572, 120596>>, <<120598, 120628>>,
   <<120630, 120654>>, <<120656, 120686>>, <<120688, 120712>>, <<120714,
   120744>>, <<120746, 120770>>, <<120772, 120779>>, <<122624, 122633>>,
   <<122635, 122654>>, <<125184, 125251>>, <<127280, 127305>>, <<127312,
   127337>>, <<127344, 127369>>}

\* the characters with the property Case_Ignorable, as ranges
CaseIgnorableRanges ==
  {<<39, 39>>, <<46, 46>>, <<58, 58>>, <<94, 94>>, <<96, 96>>, <<168, 168>>,
   <<173, 173>>, <<175, 175>>, <<180, 180>>, <<183, 184>>, <<688, 879>>,
   <<884, 885>>, <<890, 890>>, <<900, 901>>, <<903, 903>>, <<1155, 1161>>,
   <<1369, 1369>>, <<1375, 1375>>, <<1425, 1469>>, <<1471, 1471>>, <<1473,
   1474>>, <<1476, 1477>>, <<1479, 1479>>, <<1524, 1524>>, <<1536, 1541>>,
   <<1552, 1562>>, <<1564, 1564>>, <<1600, 1600>>, <<1611, 1631>>, <<1648,
   1648>>, <<1750, 1757>>, <<1759, 1768>>, <<1770, 1773>>, <<1807, 1807>>,
   <<1809, 1809>>, <<1840, 1866>>, <<1958, 1968>>, <<2027, 2037>>, <<2042,
   2042>>, <<2045, 2045>>, <<2070, 2093>>, <<2137, 2139>>, <<2184, 2184>>,
   <<2192, 2193>>, <<2200, 2207>>, <<2249, 2306>>, <<2362, 2362>>, <<2364,
   2364>>, <<2369, 2376>>, <<2381, 2381>>, <<2385, 2391>>, <<2402, 2403>>,
   <<2417, 2417>>, <<2433, 2433>>, <<2492, 2492>>, <<2497, 2500>>, <<2509,
   2509>>, <<2530, 2531>>, <<2558, 2558>>, <<2561, 2562>>, <<2620, 2620>>,
   <<2625, 2626>>, <<2631, 2632>>, <<2635, 2637>>, <<2641, 2641>>, <<2672,
   2673>>, <<2677, 2677>>, <<2689, 2690>>, <<2748, 2748>>, <<2753, 2757>>,
   <<2759, 2760>>, <<2765, 2765>>, <<2786, 2787>>, <<2810, 2815>>, <<2817,
   2817>>, <<2876, 2876>>, <<2879, 2879>>, <<2881, 2884>>, <<2893, 2893>>,
   <<2901, 2902>>, <<2914, 2915>>, <<2946, 2946>>, <<3008, 3008>>, <<3021,
   3021>>, <<3072, 3072>>, <<3076, 3076>>, <<3132, 3132>>, <<3134, 3136>>,
   <<3142, 3144>>, <<3146, 3149>>, <<3157, 3158>>, <<3170, 3171>>, <<3201,
   3201>>, <<3260, 3260>>, <<3263, 3263>>, <<3270, 3270>>, <<3276, 3277>>,
   <<3298, 3299>>, <<3328, 3329>>, <<3387, 3388>>, <<3393, 3396>>, <<3405,
   3405>>, <<3426, 3427>>, <<3457, 3457>>, <<3530, 3530>>, <<3538, 3540>>,
   <<3542, 3542>>, <<3633, 3633>>, <<3636, 3642>>, <<3654, 3662>>, <<3761,
   3761>>, <<3764, 3772>>, <<3782, 3782>>, <<3784, 3789>>, <<3864, 3865>>,
   <<3893, 3893>>, <<3895, 3895>>, <<3897, 3897>>, <<3953, 3966>>, <<3968,
   3972>>, <<3974, 3975>>, <<3981, 3991>>, <<3993, 4028>>, <<4038, 4038>>,
   <<4141, 4144>>, <<4146, 4151>>, <<4153, 4154>>, <<4157, 4158>>, <<4184,
   4185>>, <<4190, 4192>>, <<4209, 4212>>, <<4226, 4226>>, <<4229, 4230>>,
   <<4237, 4237>>, <<4253, 4253>>, <<4348, 4348>>, <<4957, 4959>>, <<5906,
   5908>>, <<5938, 5939>>, <<5970, 5971>>, <<6002, 6003>>, <<6068, 6069>>,
   <<6071, 6077>>, <<6086, 6086>>, <<6089, 6099>>, <<6103, 6103>>, <<6109,
   6109>>, <<6155, 6159>>, <<6211, 6211>>, <<6277, 6278>>, <<6313, 6313>>,
   <<6432, 6434>>, <<6439, 6440>>, <<6450, 6450>>, <<6457, 6459>>, <<6679,
   6680>>, <<6683, 6683>>, <<6742, 6742>>, <<6744, 6750>>, <<6752, 6752>>,
   <<6754, 6754>>, <<6757, 6764>>, <<6771, 6780>>, <<6783, 6783>>, <<6823,
   6823>>, <<6832, 6862>>, <<6912, 6915>>, <<6964, 6964>>, <<6966, 6970>>,
   <<6972, 6972>>, <<6978, 6978>>, <<7019, 7027>>, <<7040, 7041>>, <<7074,
   7077>>, <<7080, 7081>>, <<7083, 7085>>, <<7142, 7142>>, <<7144, 7145>>,
   <<7149, 7149>>, <<7151, 7153>>, <<7212, 7219>>, <<7222, 7223>>, <<7288,
   7293>>, <<7376, 7378>>, <<7380, 7392>>, <<7394, 7400>>, <<7405, 7405>>,
   <<7412, 7412>>, <<7416, 7417>>, <<7468, 7530>>, <<7544, 7544>>, <<7579,
   7679>>, <<8125, 8125>>, <<8127, 8129>>, <<8141, 8143>>, <<8157, 8159>>,
   <<8173, 8175>>, <<8189, 8190>>, <<8203, 8207>>, <<8216, 8217>>, <<8228,
   8228>>, <<8231, 8231>>, <<8234, 8238>>, <<8288, 8292>>, <<8294, 8303>>,
   <<8305, 8305>>, <<8319, 8319>>, <<8336, 8348>>, <<8400, 8432>>, <<11388,
   11389>>, <<11503, 11505>>, <<11631, 11631>>, <<11647, 11647>>, <<11744,
   11775>>, <<11823, 11823>>, <<12293, 12293>>, <<12330, 12333>>, <<12337,
   12341>>, <<12347, 12347>>, <<12441, 12446>>, <<12540, 12542>>, <<40981,
   40981>>, <<42232, 42237>>, <<42508, 42508>>, <<42607, 42610>>, <<42612,
   42621>>, <<42623, 42623>>, <<42652, 42655>>, <<42736, 42737>>, <<42752,
   42785>>, <<42864, 42864>>, <<42888, 42890>>, <<42994, 42996>>, <<43000,
   43001>>, <<43010, 43010>>, <<43014, 43014>>, <<43019, 43019>>, <<43045,
   43046>>, <<43052, 43052>>, <<43204, 43205>>, <<43232, 43249>>, <<43263,
   43263>>, <<43302, 43309>>, <<43335, 43345>>, <<43392, 43394>>, <<43443,
   43443>>, <<43446, 43449>>, <<43452, 43453>>, <<43471, 43471>>, <<43493,
   43494>>, <<43561, 43566>>, <<43569, 43570>>, <<43573, 43574>>, <<43587,
   43587>>, <<43596, 43596>>, <<43632, 43632>>, <<43644, 43644>>, <<43696,
   43696>>, <<43698, 43700>>, <<43703, 43704>>, <<43710, 43711>>, <<43713,
   43713>>, <<43741, 43741>>, <<43756, 43757>>, <<43763, 43764>>, <<43766,
   43766>>, <<43867, 43871>>, <<43881, 43883>>, <<44005, 44005>>, <<44008,
   44008>>, <<44013, 44013>>, <<64286, 64286>>, <<64434, 64450>>, <<65024,
   65039>>, <<65043, 65043>>, <<65056, 65071>>, <<65106, 65106>>, <<65109,
   65109>>, <<65279, 65279>>, <<65287, 65287>>, <<65294, 65294>>, <<65306,
   65306>>, <<65342, 65342>>, <<65344, 65344>>, <<65392, 65392>>, <<65438,
   65439>>, <<65507, 65507>>, <<65529, 65531>>, <<66045, 66045>>, <<66272,
   66272>>, <<66422, 66426>>, <<67456, 67461>>, <<67463, 67504>>, <<67506,
   67514>>, <<68097, 68099>>, <<68101, 68102>>, <<68108, 68111>>, <<68152,
   68154>>, <<68159, 68159>>, <<68325, 68326>>, <<68900, 68903>>, <<69291,
   69292>>, <<69446, 69456>>, <<69506, 69509>>, <<69633, 69633>>, <<69688,
   69702>>, <<69744, 69744>>, <<69747, 69748>>, <<69759, 69761>>, <<69811,
   69814>>, <<69817, 69818>>, <<69821, 69821>>, <<69826, 69826>>, <<69837,
   69837>>, <<69888, 69890>>, <<69927, 69931>>, <<69933, 69940>>, <<70003,
   70003>>, <<70016, 70017>>, <<70070, 70078>>, <<70089, 70092>>, <<70095,
   70095>>, <<70191, 70193>>, <<70196, 70196>>, <<70198, 70199>>, <<70206,
   70206>>, <<70367, 70367>>, <<70371, 70378>>, <<70400, 70401>>, <<70459,
   70460>>, <<70464, 70464>>, <<70502, 70508>>, <<70512, 70516>>, <<70712,
   70719>>, <<70722, 70724>>, <<70726, 70726>>, <<70750, 70750>>, <<70835,
   70840>>, <<70842, 70842>>, <<70847, 70848>>, <<70850, 70851>>, <<71090,
   71093>>, <<71100, 71101>>, <<71103, 71104>>, <<71132, 71133>>, <<71219,
   71226>>, <<71229, 71229>>, <<71231, 71232>>, <<71339, 71339>>, <<71341,
   71341>>, <<71344, 71349>>, <<71351, 71351>>, <<71453, 71455>>, <<71458,
   71461>>, <<71463, 71467>>, <<71727, 71735>>, <<71737, 71738>>, <<71995,
   71996>>, <<71998, 71998>>, <<72003, 72003>>, <<72148, 72151>>, <<72154,
   72155>>, <<72160, 72160>>, <<72193, 72202>>, <<72243, 72248>>, <<72251,
   72254>>, <<72263, 72263>>, <<72273, 72278>>, <<72281, 72283>>, <<72330,
   72342>>, <<72344, 72345>>, <<72752, 72758>>, <<72760, 72765>>, <<72767,
   72767>>, <<72850, 72871>>, <<72874, 72880>>, <<72882, 72883>>, <<72885,
   72886>>, <<73009, 73014>>, <<73018, 73018>>, <<73020, 73021>>, <<73023,
   73029>>, <<73031, 73031>>, <<73104, 73105>>, <<73109, 73109>>, <<73111,
   73111>>, <<73459, 73460>>, <<78896, 78904>>, <<92912, 92916>>, <<92976,
   92982>>, <<92992, 92995>>, <<94031, 94031>>, <<94095, 94111>>, <<94176,
   94177>>, <<94179, 94180>>, <<110576, 110579>>, <<110581, 110587>>,
   <<110589, 110590>>, <<113821, 113822>>, <<113824, 113827>>, <<118528,
   118573>>, <<118576, 118598>>, <<119143, 119145>>, <<119155, 119170>>,
   <<119173, 119179>>, <<119210, 119213>>, <<119362, 119364>>, <<121344,
   121398>>, <<121403, 121452>>, <<121461, 121461>>, <<121476, 121476>>,
   <<121499, 121503>>, <<121505, 121519>>, <<122880, 122886>>, <<122888,
   122904>>, <<122907, 122913>>, <<122915, 122916>>, <<122918, 122922>>,
   <<123184, 123197>>, <<123566, 123566>>, <<123628, 123631>>, <<125136,
   125142>>, <<125252, 125259>>, <<127995, 127999>>, <<917505, 917505>>,
   <<917536, 917631>>, <<917760, 917999>>}

is_cased(c) == \E r \in CasedRanges : r[1] <= c /\ c <= r[2]
is_case_ignorable(c) == \E r \in CaseIgnorableRanges : r[1] <= c /\ c <= r[2]

InRun(c, r) == r[1] <= c /\ c <= r[2] /\ (c - r[1]) % r[3] = 0

\* the lowercase mapping of one character out of context
to_lower(c) ==
  IF \E r \in LowerRuns : InRun(c, r)
  THEN c + (CHOOSE r \in LowerRuns : InRun(c, r))[4]
  ELSE c

\* capital sigma at s[i] becomes the final small sigma when the nearest
\* character before it that is not case-ignorable is cased and the nearest
\* one after it, if any, is not
handle_capital_sigma(s, i) ==
  LET before == {j \in 1..(i - 1) : ~is_case_ignorable(s[j])}
      after == {j \in (i + 1)..Len(s) : ~is_case_ignorable(s[j])}
      last == CHOOSE j \in before : \A k \in before : k <= j
      first == CHOOSE j \in after : \A k \in after : j <= k
  IN  IF /\ before # {}
         /\ is_cased(s[last])
         /\ (after = {} \/ ~is_cased(s[first]))
      THEN 962 ELSE 963

\* what s[i] becomes: capital I with dot above becomes i and a combining dot
lower_at(s, i) ==
  IF s[i] = 304 THEN <<105, 775>>
  ELSE IF s[i] = 931 THEN <<handle_capital_sigma(s, i)>>
  ELSE <<to_lower(s[i])>>

RECURSIVE lower_from(_, _)
lower_from(s, i) ==
  IF i > Len(s) THEN <<>> ELSE lower_at(s, i) \o lower_from(s, i + 1)

lower(s) == lower_from(s, 1)

\* os.environ.get(flag, 'false').lower() == 'true'
parse_flag(v) == lower(v) = <<116, 114, 117, 101>>

\* bool(v) is False for None and ''
falsy(v) == v = NoValue \/ v = Text("")

Event(op, id, result) == [op |-> op, id |-> id, result |-> result]

\* what a caller sees of a call: it raised, or returned success or failure
Seen(raised, success) ==
  IF raised # "none" THEN "raised" ELSE IF success THEN "ok" ELSE "failed"

\* ------------------------------------------------------- glacier_archiver
\* GlacierArchiver.archive_snapshot: the result dict, or the exception that
\* leaves the function.  When boto3.client raises inside the try, the first
\* except clause evaluates glacier_client, which is unbound, and the
\* UnboundLocalError leaves the function.
archive_snapshot(outcome) ==
  CASE outcome = "ok" -> [raised |-> "none", success |-> TRUE, error |-> ""]
    [] outcome = "vault_not_found" ->
         [raised |-> "none", success |-> FALSE, error |-> "Vault not found"]
    [] outcome = "upload_error" ->
         [raised |-> "none", success |-> FALSE, error |-> "upload_error"]
    [] OTHER -> [raised |-> "archive_snapshot", success |-> FALSE, error |-> ""]

\* ------------------------------------------------------- snapshot_manager
\* SnapshotManager.delete_snapshot: boto3.client is outside the try
delete_snapshot(outcome) ==
  CASE outcome = "ok" -> [raised |-> "none", result |-> TRUE]
    [] outcome = "delete_error" -> [raised |-> "none", result |-> FALSE]
    [] OTHER -> [raised |-> "delete_snapshot", result |-> FALSE]

AgeGuardInclusive(age_days, retention_days) == age_days >= retention_days

\* line 71: the guard of every side-effecting action
AgeGuard(age_days, retention_days) == age_days > retention_days

\* line 72: archive only with the flag and an archiver
ArchiveEnabled(mgr) == mgr.enable_glacier /\ mgr.glacier_archiver # NoValue

DeleteEnabledAlways(mgr) == TRUE

\* line 81
DeleteEnabled(mgr) == mgr.enable_auto_delete

AfterArchiveUnchecked(st, archive_result) ==
  [status |-> "ARCHIVED", action_taken |-> "ARCHIVED_TO_GLACIER"]

\* lines 77-79: status and action after the archive call
AfterArchive(st, archive_result) ==
  IF archive_result.success
  THEN [status |-> "ARCHIVED", action_taken |-> "ARCHIVED_TO_GLACIER"]
  ELSE st

AfterDeleteKeepsArchived(st, delete_result) ==
  IF delete_result /\ st.status = "ACTIVE"
  THEN [status |-> "DELETED", action_taken |-> "DELETED"]
  ELSE st

\* lines 84-86: status and action after the delete call
AfterDelete(st, delete_result) ==
  IF delete_result
  THEN [status |-> "DELETED", action_taken |-> "DELETED"]
  ELSE st

\* SnapshotManager.process_snapshot: the record, the collaborator calls made,
\* and the exception that leaves the function ("none" when it returns)
process_snapshot(mgr, snapshot, region, now, ao, do) ==
  LET snapshot_id == snapshot.SnapshotId
      size_gb == snapshot.VolumeSize
      age_days == calculate_snapshot_age(now, snapshot.StartTime)
      estimated_cost == estimate_cost(size_gb, mgr.snapshot_cost_per_gb)
      st0 == [status |-> "ACTIVE", action_taken |-> "NONE"]
      old == AgeGuard(age_days, mgr.retention_days)
      doArchive == old /\ ArchiveEnabled(mgr)
      ar == archive_snapshot(ao)
      archRaised == doArchive /\ ar.raised # "none"
      st1 == IF doArchive /\ ~archRaised THEN AfterArchive(st0, ar) ELSE st0
      doDelete == old /\ ~archRaised /\ DeleteEnabled(mgr)
      dr == delete_snapshot(do)
      delRaised == doDelete /\ dr.raised # "none"
      st2 == IF doDelete /\ ~delRaised THEN AfterDelete(st1, dr.result) ELSE st1
      calls == (IF doArchive
                THEN <<Event("archive", snapshot_id,
                             Seen(ar.raised, ar.success))>> ELSE <<>>)
               \o (IF doDelete
                   THEN <<Event("delete", snapshot_id,
                                Seen(dr.raised, dr.result))>> ELSE <<>>)
  IN  [raised |-> IF archRaised THEN ar.raised
                  ELSE IF delRaised THEN dr.raised ELSE "none",
       calls |-> calls,
       result |-> [SnapshotId |-> snapshot_id,
                   Region |-> region,
                   CreatedAt |-> snapshot.StartTime,
                   AgeDays |-> age_days,
                   SizeGB |-> size_gb,
                   Status |-> st2.status,
                   ActionTaken |-> st2.action_taken,
                   EstimatedCost |-> round2(estimated_cost)]]

IsOldRecordOffByOne(r, retention_days) == r.AgeDays > retention_days + 1

\* line 120
IsOldRecord(r, retention_days) == r.AgeDays > retention_days
\* line 121
IsDeletedRecord(r) == r.Status = "DELETED"
\* line 122
IsArchivedRecord(r) == r.Status = "ARCHIVED"

SavingsOverOld(results, old_snapshots, deleted_snapshots) == old_snapshots

\* line 126: the records whose cost counts as savings
SavingsRecords(results, old_snapshots, deleted_snapshots) == deleted_snapshots

\* SnapshotManager.generate_summary
generate_summary(mgr, results) ==
  LET Old(r) == IsOldRecord(r, mgr.retention_days)
      old_snapshots == SelectSeq(results, Old)
      deleted_snapshots == SelectSeq(results, IsDeletedRecord)
      archived_snapshots == SelectSeq(results, IsArchivedRecord)
      total_cost == SumCost(results)
      old_cost == SumCost(old_snapshots)
      savings == SumCost(SavingsRecords(results, old_snapshots, deleted_snapshots))
  IN  [retention_policy_days |-> mgr.retention_days,
       regions_scanned |-> mgr.scan_regions,
       total_snapshots |-> Len(results),
       old_snapshots_count |-> Len(old_snapshots),
       deleted_count |-> Len(deleted_snapshots),
       archived_count |-> Len(archived_snapshots),
       total_estimated_cost_usd |-> round2(total_cost),
       old_snapshots_cost_usd |-> round2(old_cost),
       estimated_savings_usd |-> round2(savings),
       auto_delete_enabled |-> mgr.enable_auto_delete,
       glacier_archive_enabled |-> mgr.enable_glacier]

\* ------------------------------------------------------------------- Init
Init ==
  /\ env \in [RETENTION_DAYS : RetentionChoices,
              ENABLE_AUTO_DELETE : FlagChoices,
              ENABLE_GLACIER_ARCHIVE : FlagChoices,
              EBS_SNAPSHOT_COST_PER_GB : RateChoices,
              mail : MailChoices]
  /\ self = NoValue
  /\ clock = 0
  /\ pc = "handler"
  /\ region_idx = 1
  /\ snapshots = <<>>
  /\ snap_idx = 1
  /\ all_results = <<>>
  /\ summary = NoValue
  /\ response = [statusCode |-> 0, body |-> NoValue]
  /\ exc = "none"
  /\ trace = <<>>
  /\ best_effort_failed = {}
  /\ inventory = [r \in 1..Len(Regions) |-> [outcome |-> "unscanned", items |-> <<>>]]

\* ---------------------------------------------------------------- actions
\* the wall clock advances; process_snapshot is its only reader, so the
\* advance is taken where the next reading sees it
Tick ==
  /\ pc = "snapshot"
  /\ snap_idx <= Len(snapshots)
  /\ clock < MaxTicks
  /\ clock' = clock + 1
  /\ UNCHANGED <<env, self, pc, region_idx, snapshots, snap_idx, all_results,
                 summary, response, exc, trace, best_effort_failed, inventory>>

\* SnapshotManager.__init__ with GmailNotifier.__init__ (lines 20-23 there)
\* and GlacierArchiver.__init__: the fields read later
SnapshotManager(e) ==
  [retention_days |-> e.RETENTION_DAYS,
   enable_auto_delete |-> parse_flag(e.ENABLE_AUTO_DELETE),
   enable_glacier |-> parse_flag(e.ENABLE_GLACIER_ARCHIVE),
   scan_regions |-> Regions,
   snapshot_cost_per_gb |-> float(e.EBS_SNAPSHOT_COST_PER_GB),
   gmail_user |-> e.mail.GMAIL_USER,
   alert_receiver |-> e.mail.ALERT_RECEIVER,
   gmail_password |-> e.mail.password,
   glacier_archiver |->
     IF parse_flag(e.ENABLE_GLACIER_ARCHIVE)
     THEN [vault_name |-> "ebs-snapshot-archive"]
     ELSE NoValue]

\* lambda_handler line 186: SnapshotManager().  DynamoLogger.__init__ calls
\* boto3.resource outside any try.
Construct ==
  /\ pc = "handler"
  /\ \E co \in ConstructOutcomes :
       IF co = "ok"
       THEN /\ self' = SnapshotManager(env)
            /\ pc' = "region"
            /\ exc' = exc
       ELSE /\ self' = self
            /\ pc' = "except"
            /\ exc' = "DynamoLogger.__init__"
  /\ UNCHANGED <<env, clock, region_idx, snapshots, snap_idx, all_results,
                 summary, response, trace,
                 best_effort_failed, inventory>>

\* the inventories describe_snapshots may return for region r
Inventories(r, room) ==
  UNION {[1..n -> Items] : n \in 0..room}

WithIds(r, inv) ==
  [i \in 1..Len(inv) |-> [SnapshotId |-> <<r, i>>,
                          StartTime |-> inv[i].StartTime,
                          VolumeSize |-> inv[i].VolumeSize]]

\* run lines 156-158: the next region's scan_region.  boto3.client is
\* outside the try; a describe_snapshots failure yields [].
ScanRegion ==
  /\ pc = "region"
  /\ region_idx <= Len(self.scan_regions)
  /\ \E o \in InventoryOutcomes :
       \E inv \in Inventories(region_idx, MaxSnapshots - Len(all_results)) :
         /\ (o # "ok") => inv = <<>>
         /\ trace' = Append(trace, Event("scan", <<region_idx, 0>>, o))
         /\ IF o = "client_error"
            THEN /\ pc' = "except"
                 /\ exc' = "scan_region"
                 /\ UNCHANGED <<snapshots, snap_idx, inventory>>
            ELSE /\ snapshots' = WithIds(region_idx, inv)
                 /\ snap_idx' = 1
                 /\ inventory' = [inventory EXCEPT ![region_idx] =
                                    [outcome |-> o, items |-> WithIds(region_idx, inv)]]
                 /\ pc' = "snapshot"
                 /\ exc' = exc
  /\ UNCHANGED <<env, self, clock, region_idx, all_results, summary, response,
                 best_effort_failed>>

NextRegionLogsSummary ==
  /\ pc = "snapshot"
  /\ snap_idx > Len(snapshots)
  /\ region_idx' = region_idx + 1
  /\ pc' = "region"
  /\ trace' = Append(trace, Event("log_summary", NoId, "called"))
  /\ UNCHANGED <<env, self, clock, snapshots, snap_idx, all_results, summary,
                 response, exc, best_effort_failed, inventory>>

\* run line 160: the inner loop is exhausted, go to the next region
NextRegion ==
  /\ pc = "snapshot"
  /\ snap_idx > Len(snapshots)
  /\ region_idx' = region_idx + 1
  /\ pc' = "region"
  /\ UNCHANGED <<env, self, clock, snapshots, snap_idx, all_results, summary,
                 response, exc, trace, best_effort_failed, inventory>>

\* run lines 161-162: process_snapshot and append
ProcessSnapshot ==
  /\ pc = "snapshot"
  /\ snap_idx <= Len(snapshots)
  /\ \E ao \in ArchiveOutcomes, do \in DeleteOutcomes :
       LET p == process_snapshot(self, snapshots[snap_idx],
                                 self.scan_regions[region_idx], clock, ao, do)
       IN  /\ trace' = trace \o p.calls
           /\ IF p.raised # "none"
              THEN /\ pc' = "except"
                   /\ exc' = p.raised
                   /\ all_results' = all_results
              ELSE /\ pc' = "log"
                   /\ exc' = exc
                   /\ all_results' = Append(all_results, p.result)
  /\ UNCHANGED <<env, self, clock, region_idx, snapshots, snap_idx, summary,
                 response, best_effort_failed, inventory>>

log_snapshot_uncaught(outcome) ==
  [raised |-> IF outcome = "ok" THEN "none" ELSE "log_snapshot",
   result |-> (outcome = "ok")]

\* DynamoLogger.log_snapshot: the whole body is in a try; the item is a copy
log_snapshot(outcome) ==
  [raised |-> "none", result |-> (outcome = "ok")]

\* DynamoLogger.log_summary
log_summary(outcome) ==
  [raised |-> "none", result |-> (outcome = "ok")]

\* GmailNotifier.send_report: skipped without credentials (line 169), else
\* all in a try
send_report(mgr, outcome) ==
  IF falsy(mgr.gmail_user) \/ falsy(mgr.gmail_password) \/ falsy(mgr.alert_receiver)
  THEN [raised |-> "none", result |-> FALSE]
  ELSE [raised |-> "none", result |-> (outcome = "ok")]

\* a best-effort call returned: remember it when it returned False
Noted(failed, op, result) == IF result THEN failed ELSE failed \cup {op}

\* run line 165
LogSnapshot ==
  /\ pc = "log"
  /\ \E o \in PutOutcomes :
       LET l == log_snapshot(o)
       IN  /\ trace' = Append(trace, Event("log_snapshot",
                                snapshots[snap_idx].SnapshotId, "called"))
           /\ best_effort_failed' = Noted(best_effort_failed, "log_snapshot", l.result)
           /\ IF l.raised # "none"
              THEN /\ pc' = "except"
                   /\ exc' = l.raised
                   /\ snap_idx' = snap_idx
              ELSE /\ pc' = "snapshot"
                   /\ exc' = exc
                   /\ snap_idx' = snap_idx + 1
  /\ UNCHANGED <<env, self, clock, region_idx, snapshots, all_results, summary,
                 response, inventory>>

\* run line 168
GenerateSummary ==
  /\ pc = "region"
  /\ region_idx > Len(self.scan_regions)
  /\ summary' = generate_summary(self, all_results)
  /\ pc' = "log_summary"
  /\ UNCHANGED <<env, self, clock, region_idx, snapshots, snap_idx, all_results,
                 response, exc, trace, best_effort_failed, inventory>>

\* run line 172
LogSummary ==
  /\ pc = "log_summary"
  /\ \E o \in PutOutcomes :
       LET l == log_summary(o)
       IN  /\ trace' = Append(trace, Event("log_summary", NoId, "called"))
           /\ best_effort_failed' = Noted(best_effort_failed, "log_summary", l.result)
           /\ IF l.raised # "none"
              THEN pc' = "except" /\ exc' = l.raised
              ELSE pc' = "notify" /\ exc' = exc
  /\ UNCHANGED <<env, self, clock, region_idx, snapshots, snap_idx, all_results,
                 summary, response, inventory>>

\* run line 175
SendReport ==
  /\ pc = "notify"
  /\ \E o \in SmtpOutcomes :
       LET s == send_report(self, o)
       IN  /\ trace' = Append(trace, Event("send_report", NoId, "called"))
           /\ best_effort_failed' = Noted(best_effort_failed, "send_report", s.result)
           /\ IF s.raised # "none"
              THEN pc' = "except" /\ exc' = s.raised
              ELSE pc' = "return" /\ exc' = exc
  /\ UNCHANGED <<env, self, clock, region_idx, snapshots, snap_idx, all_results,
                 summary, response, inventory>>

\* run lines 177-180 and lambda_handler line 188
Return ==
  /\ pc = "return"
  /\ response' = [statusCode |-> 200, body |-> summary]
  /\ pc' = "done"
  /\ UNCHANGED <<env, self, clock, region_idx, snapshots, snap_idx, all_results,
                 summary, exc, trace, best_effort_failed, inventory>>

\* lambda_handler lines 189-194: what the handler does with an exception
handler_except(e) ==
  [pc |-> "done", response |-> [statusCode |-> 500, body |-> [error |-> e]]]

HandlerExcept ==
  /\ pc = "except"
  /\ LET h == handler_except(exc)
     IN  pc' = h.pc /\ response' = h.response
  /\ UNCHANGED <<env, self, clock, region_idx, snapshots, snap_idx, all_results,
                 summary, exc, trace, best_effort_failed, inventory>>

Next ==
  \/ Tick
  \/ Construct
  \/ ScanRegion
  \/ NextRegion
  \/ ProcessSnapshot
  \/ LogSnapshot
  \/ GenerateSummary
  \/ LogSummary
  \/ SendReport
  \/ Return
  \/ HandlerExcept

Spec == Init /\ [][Next]_vars

\* the steps of the handler itself
Step ==
  \/ Construct
  \/ ScanRegion
  \/ NextRegion
  \/ ProcessSnapshot
  \/ LogSnapshot
  \/ GenerateSummary
  \/ LogSummary
  \/ SendReport
  \/ Return
  \/ HandlerExcept

\* send_report is past the credentials test (line 169) and talks to the
\* server: smtplib.SMTP (line 186) is given no timeout, so the connection's
\* socket blocks and a reply that never comes is awaited for ever
AwaitsSmtp ==
  /\ pc = "notify"
  /\ ~(falsy(self.gmail_user) \/ falsy(self.gmail_password)
        \/ falsy(self.alert_receiver))

\* the steps that are sure to be taken: all but the SMTP exchange
SureStep == Step /\ ~AwaitsSmtp

\* the handler runs on one thread that is never descheduled for ever, and
\* every boto3 call returns or raises (botocore's connect and read timeouts
\* and its bounded retries); nothing bounds the SMTP exchange
FairSpec == Spec /\ WF_vars(SureStep)

\* ------------------------------------------------- reading the call trace
Records == {all_results[k] : k \in 1..Len(all_results)}

Calls(op, id) == {i \in 1..Len(trace) : trace[i].op = op /\ trace[i].id = id}
Called(op, id) == Calls(op, id) # {}
CallResult(op, id, result) == \E i \in Calls(op, id) : trace[i].result = result
CallCount(op, result) ==
  Cardinality({i \in 1..Len(trace) : trace[i].op = op /\ trace[i].result = result})

ActiveNone(r) == r.Status = "ACTIVE" /\ r.ActionTaken = "NONE"
ArchivedPair(r) == r.Status = "ARCHIVED" /\ r.ActionTaken = "ARCHIVED_TO_GLACIER"
DeletedPair(r) == r.Status = "DELETED" /\ r.ActionTaken = "DELETED"

Constructed == pc \notin {"handler"} /\ exc # "DynamoLogger.__init__"

\* ----------------------------------------------------------------- claims
\* C1: a snapshot with age_days <= retention_days gets an ACTIVE/NONE record
\* and neither archive nor delete is called for it, whatever the flags are.
C1_YoungIsUntouched ==
  \A r \in Records :
    r.AgeDays <= self.retention_days =>
      /\ ActiveNone(r)
      /\ ~Called("archive", r.SnapshotId)
      /\ ~Called("delete", r.SnapshotId)

C1_Witness ==
  /\ Constructed
  /\ self.enable_auto_delete /\ self.enable_glacier
  /\ \E r \in Records : r.AgeDays = self.retention_days /\ ActiveNone(r)

\* C2: every record carries one of the three status/action pairs; DELETED
\* only after a successful delete call for that snapshot, ARCHIVED only after
\* a successful archive call, and ACTIVE/NONE when neither call succeeded.
C2_ConsistentPair ==
  \A r \in Records :
    /\ ActiveNone(r) \/ ArchivedPair(r) \/ DeletedPair(r)
    /\ r.Status = "DELETED" => CallResult("delete", r.SnapshotId, "ok")
    /\ r.Status = "ARCHIVED" => CallResult("archive", r.SnapshotId, "ok")
    /\ (~CallResult("delete", r.SnapshotId, "ok")
        /\ ~CallResult("archive", r.SnapshotId, "ok")) => ActiveNone(r)

C2_Witness ==
  /\ \E r \in Records : ArchivedPair(r)
  /\ \E r \in Records :
       ActiveNone(r) /\ CallResult("archive", r.SnapshotId, "failed")

\* C3: for an old snapshot with auto-delete on, the delete call comes after
\* the archive call and decides the record: success gives DELETED/DELETED
\* whatever archive did, failure keeps what the archive step left.
C3_DeleteDecides ==
  \A r \in Records :
    (r.AgeDays > self.retention_days /\ self.enable_auto_delete) =>
      /\ Called("delete", r.SnapshotId)
      /\ \A a \in Calls("archive", r.SnapshotId), d \in Calls("delete", r.SnapshotId) : a < d
      /\ CallResult("delete", r.SnapshotId, "ok") => DeletedPair(r)
      /\ ~CallResult("delete", r.SnapshotId, "ok") =>
           IF CallResult("archive", r.SnapshotId, "ok")
           THEN ArchivedPair(r) ELSE ActiveNone(r)

C3_Witness ==
  /\ \E r \in Records :
       /\ DeletedPair(r)
       /\ CallResult("archive", r.SnapshotId, "ok")
  /\ \E r \in Records :
       /\ ArchivedPair(r)
       /\ CallResult("delete", r.SnapshotId, "failed")

\* C4: with both flags off every record is ACTIVE/NONE and no archive or
\* delete call is made; delete is called only with auto-delete on, archive
\* only with cold-archive on.
C4_FlagsGateCalls ==
  Constructed =>
    /\ (~self.enable_auto_delete /\ ~self.enable_glacier) =>
         /\ \A r \in Records : ActiveNone(r)
         /\ \A i \in 1..Len(trace) : trace[i].op \notin {"archive", "delete"}
    /\ (\E i \in 1..Len(trace) : trace[i].op = "delete") => self.enable_auto_delete
    /\ (\E i \in 1..Len(trace) : trace[i].op = "archive") => self.enable_glacier

C4_Witness ==
  /\ Constructed
  /\ ~self.enable_auto_delete /\ ~self.enable_glacier
  /\ \E r \in Records : r.AgeDays > self.retention_days /\ ActiveNone(r)

\* number of snapshots describe_snapshots listed over all regions
RECURSIVE InventorySize(_)
InventorySize(r) ==
  IF r = 0 THEN 0 ELSE Len(inventory[r].items) + InventorySize(r - 1)
TotalInventory == InventorySize(Len(Regions))

ScanFailed(r) ==
  \E i \in Calls("scan", <<r, 0>>) : trace[i].result # "ok"

\* ids of the records of region r, in all_results order
RecordIdsOf(r) ==
  LET InRegion(x) == x.SnapshotId[1] = r
      rs == SelectSeq(all_results, InRegion)
  IN  [k \in 1..Len(rs) |-> rs[k].SnapshotId]

\* C5: a failing archive or delete collaborator (client creation, remote
\* call, missing vault) never makes an exception leave archive_snapshot,
\* delete_snapshot or process_snapshot: the snapshot still gets its record,
\* with a no-op outcome for the failed step.
C5_NeverRaises ==
  /\ exc \notin {"archive_snapshot", "delete_snapshot"}
  /\ \A i \in 1..Len(trace) :
       (trace[i].op \in {"archive", "delete"} /\ trace[i].result # "ok") =>
         \E r \in Records :
           /\ r.SnapshotId = trace[i].id
           /\ trace[i].op = "archive" => r.Status # "ARCHIVED"
           /\ trace[i].op = "delete" => r.Status # "DELETED"

\* C6: when the inventory of a region fails, the invocation still returns
\* 200, that region has no record, and every other region is scanned and has
\* exactly the records of its own inventory.
C6_FailedRegionSkipped ==
  \A r \in 1..Len(Regions) :
    (pc = "done" /\ ScanFailed(r)) =>
      /\ response.statusCode = 200
      /\ RecordIdsOf(r) = <<>>
      /\ \A q \in 1..Len(Regions) \ {r} :
           /\ Called("scan", <<q, 0>>)
           /\ RecordIdsOf(q) = [k \in 1..Len(inventory[q].items) |->
                                  inventory[q].items[k].SnapshotId]

SummaryReady ==
  \/ pc \in {"log_summary", "notify", "return"}
  \/ pc = "done" /\ response.statusCode = 200

\* the records of the snapshots whose delete call succeeded cost this much
RECURSIVE DeletedCost(_)
DeletedCost(t) ==
  IF t = <<>> THEN 0
  ELSE (IF Head(t).op = "delete" /\ Head(t).result = "ok"
        THEN round2(estimate_cost(
                      inventory[Head(t).id[1]].items[Head(t).id[2]].VolumeSize,
                      self.snapshot_cost_per_gb))
        ELSE 0) + DeletedCost(Tail(t))

ArchivedNotDeleted ==
  {i \in 1..Len(trace) :
     /\ trace[i].op = "archive" /\ trace[i].result = "ok"
     /\ ~CallResult("delete", trace[i].id, "ok")}

\* C7: failing log_snapshot, log_summary or send_report calls (or a
\* send_report skipped for want of credentials) never raise into run; a run
\* in which some of them failed still classifies every listed snapshot and
\* returns 200 with the counts and savings that the calls made determine.
C7_BestEffort ==
  /\ exc \notin {"log_snapshot", "log_summary", "send_report"}
  /\ (best_effort_failed # {} /\ pc = "done" /\ exc = "none") =>
       /\ response.statusCode = 200
       /\ Len(all_results) = TotalInventory
       /\ response.body = generate_summary(self, all_results)
       /\ response.body.total_snapshots = TotalInventory
       /\ response.body.deleted_count = CallCount("delete", "ok")
       /\ response.body.archived_count = Cardinality(ArchivedNotDeleted)
       /\ response.body.estimated_savings_usd = DeletedCost(trace)

C7_Witness ==
  /\ pc = "done"
  /\ response.statusCode = 200
  /\ best_effort_failed = {"log_snapshot", "log_summary", "send_report"}
  /\ falsy(self.gmail_user)
  /\ Len(all_results) = 2
  /\ response.body.deleted_count = 1

C8_Outcome ==
  /\ pc # "done" => response.statusCode = 0
  /\ pc = "done" =>
       \/ /\ exc = "none"
          /\ response.statusCode = 200
          /\ response.body = generate_summary(self, all_results)
       \/ /\ exc # "none"
          /\ response = [statusCode |-> 500, body |-> [error |-> exc]]

\* C8: every invocation ends by returning a response, 200 with the summary
\* when the run completed and 500 with the error when anything raised during
\* construction or the run; no exception leaves lambda_handler.
C8_AlwaysReturns == []C8_Outcome /\ <>(pc = "done")

\* C9: in every summary deleted_count and archived_count are at most
\* old_snapshots_count.
C9_CountsBoundedByOld ==
  SummaryReady =>
    /\ summary.deleted_count <= summary.old_snapshots_count
    /\ summary.archived_count <= summary.old_snapshots_count
    /\ summary.old_snapshots_count =
         Cardinality({k \in 1..Len(all_results) :
                        all_results[k].AgeDays > self.retention_days})

C9_Witness ==
  /\ SummaryReady
  /\ summary.old_snapshots_count = 1
  /\ summary.total_snapshots = 2
  /\ summary.deleted_count = 1

\* C10: the returned summary agrees with the calls made: total_snapshots is
\* the number of snapshots listed over all regions, deleted_count the number
\* of successful delete calls, archived_count the number of snapshots
\* archived successfully and not then deleted, estimated_savings_usd the sum
\* of the EstimatedCost of the successfully deleted snapshots.
C10_SummaryMatchesCalls ==
  (pc = "done" /\ response.statusCode = 200) =>
    /\ response.body.total_snapshots = TotalInventory
    /\ response.body.deleted_count = CallCount("delete", "ok")
    /\ response.body.archived_count = Cardinality(ArchivedNotDeleted)
    /\ response.body.estimated_savings_usd = DeletedCost(trace)

\* two deleted snapshots at rate 0.05, retention 90: 100 GiB of age 120 and
\* 1 GiB of age 91, deleted_count 2 and savings 5.00 + 0.05
C10_Witness ==
  /\ pc = "done" /\ response.statusCode = 200
  /\ self.retention_days = 90 /\ self.snapshot_cost_per_gb = float(50)
  /\ Len(all_results) = 2
  /\ all_results[1].AgeDays = 120 /\ all_results[1].SizeGB = 100
  /\ all_results[1].Status = "DELETED" /\ all_results[1].EstimatedCost = 5000
  /\ all_results[2].AgeDays = 91 /\ all_results[2].SizeGB = 1
  /\ all_results[2].Status = "DELETED" /\ all_results[2].EstimatedCost = 50
  /\ response.body.deleted_count = 2
  /\ response.body.estimated_savings_usd = 5050

\* ------------------------------------------- generate_summary on its own
\* the records generate_summary is applied to, as process_snapshot builds
\* them: at and over the retention age, every status, 1 GiB and 100 GiB
AggRecords(mgr) ==
  {[SnapshotId |-> NoId, Region |-> "r1", CreatedAt |-> -240,
    AgeDays |-> a, SizeGB |-> size_gb, Status |-> st.status,
    ActionTaken |-> st.action_taken,
    EstimatedCost |-> round2(estimate_cost(size_gb, mgr.snapshot_cost_per_gb))] :
     a \in {90, 91},
     st \in {[status |-> "ACTIVE", action_taken |-> "NONE"],
             [status |-> "ARCHIVED", action_taken |-> "ARCHIVED_TO_GLACIER"],
             [status |-> "DELETED", action_taken |-> "DELETED"]},
     size_gb \in {1, 100}}

Perms(n) ==
  {p \in [1..n -> 1..n] : \A i, j \in 1..n : i # j => p[i] # p[j]}

Permuted(rs, p) == [k \in 1..Len(rs) |-> rs[p[k]]]

\* a constructed manager and a record sequence handed to generate_summary
AggInit ==
  /\ env \in [RETENTION_DAYS : RetentionChoices,
              ENABLE_AUTO_DELETE : FlagChoices,
              ENABLE_GLACIER_ARCHIVE : FlagChoices,
              EBS_SNAPSHOT_COST_PER_GB : AggRateChoices,
              mail : MailChoices]
  /\ self = SnapshotManager(env)
  /\ all_results \in UNION {[1..n -> AggRecords(self)] : n \in 0..MaxRecords}
  /\ clock = 0
  /\ pc = "aggregate"
  /\ region_idx = 1
  /\ snapshots = <<>>
  /\ snap_idx = 1
  /\ summary = NoValue
  /\ response = [statusCode |-> 0, body |-> NoValue]
  /\ exc = "none"
  /\ trace = <<>>
  /\ best_effort_failed = {}
  /\ inventory = [r \in 1..Len(Regions) |-> [outcome |-> "unscanned", items |-> <<>>]]

\* generate_summary(results) on the sequence as given
AggSummarise ==
  /\ pc = "aggregate"
  /\ summary' = generate_summary(self, all_results)
  /\ pc' = "summarised"
  /\ UNCHANGED <<env, self, clock, region_idx, snapshots, snap_idx, all_results,
                 response, exc, trace, best_effort_failed, inventory>>

\* the same records are put in another order
AggPermute ==
  /\ pc = "summarised"
  /\ \E p \in Perms(Len(all_results)) :
       /\ Permuted(all_results, p) # all_results
       /\ all_results' = Permuted(all_results, p)
  /\ pc' = "permuted"
  /\ UNCHANGED <<env, self, clock, region_idx, snapshots, snap_idx, summary,
                 response, exc, trace, best_effort_failed, inventory>>

AggNext ==
  \/ AggSummarise
  \/ AggPermute

AggSpec == AggInit /\ [][AggNext]_vars

SameStatistics(a, b) ==
  /\ a.total_snapshots = b.total_snapshots
  /\ a.old_snapshots_count = b.old_snapshots_count
  /\ a.deleted_count = b.deleted_count
  /\ a.archived_count = b.archived_count
  /\ a.total_estimated_cost_usd = b.total_estimated_cost_usd
  /\ a.old_snapshots_cost_usd = b.old_snapshots_cost_usd
  /\ a.estimated_savings_usd = b.estimated_savings_usd

\* C11: generate_summary gives the same counts and costs for a record
\* sequence and for every permutation of it.
C11_OrderIndependent ==
  pc = "permuted" =>
    SameStatistics(summary, generate_summary(self, all_results))

C11_Witness ==
  /\ pc = "permuted"
  /\ Len(all_results) = 3
  /\ summary.deleted_count = 1 /\ summary.archived_count = 1
  /\ summary.old_snapshots_count = 2
  /\ summary.estimated_savings_usd = 12500
  /\ summary.total_estimated_cost_usd = 12740
  /\ all_results[1].Status = "DELETED"

\* C12: all ages of one run are computed against one "now": two snapshots
\* with the same creation instant get the same AgeDays and the same
\* classification, also when the clock advances during the scan.
C12_SingleNow ==
  \A r1 \in Records, r2 \in Records :
    r1.CreatedAt = r2.CreatedAt =>
      /\ r1.AgeDays = r2.AgeDays
      /\ AgeGuard(r1.AgeDays, self.retention_days)
           = AgeGuard(r2.AgeDays, self.retention_days)

\* ------------------------------------------------------ order of the calls
OpRank(op) ==
  CASE op = "scan" -> 0
    [] op = "archive" -> 1
    [] op = "delete" -> 2
    [] op = "log_snapshot" -> 3
    [] OTHER -> 4

ScanEvents == {i \in 1..Len(trace) : trace[i].op = "scan"}
SnapshotEvents ==
  {i \in 1..Len(trace) : trace[i].op \in {"archive", "delete", "log_snapshot"}}
SummaryEvents ==
  {i \in 1..Len(trace) : trace[i].op \in {"log_summary", "send_report"}}
OpEvents(op) == {i \in 1..Len(trace) : trace[i].op = op}

\* region, then position in the inventory, then archive < delete < log
\* (a transitive order, so it is stated of each call and the next one)
ComesBefore(e1, e2) ==
  \/ e1.id[1] < e2.id[1]
  \/ e1.id[1] = e2.id[1] /\ e1.id[2] < e2.id[2]
  \/ e1.id = e2.id /\ OpRank(e1.op) < OpRank(e2.op)

\* C13: regions are scanned in configured order and snapshots in inventory
\* order; for a snapshot archive precedes delete and both precede the log
\* write of its record, which precedes every call for the next snapshot; the
\* summary is logged once and the notification attempted once, after the
\* last record was logged, the summary log first.
C13_CallOrder ==
  /\ \A i \in ScanEvents :
       trace[i].id[1] = Cardinality({j \in ScanEvents : j < i}) + 1
  /\ \A i \in 1..(Len(trace) - 1) :
       \/ trace[i + 1].op \in {"log_summary", "send_report"}
       \/ /\ trace[i].op \notin {"log_summary", "send_report"}
          /\ ComesBefore(trace[i], trace[i + 1])
  /\ \A i \in SnapshotEvents :
       /\ Called("scan", <<trace[i].id[1], 0>>)
       /\ trace[i].id[2] > 1 =>
            Called("log_snapshot", <<trace[i].id[1], trace[i].id[2] - 1>>)
  /\ \A k \in 1..Len(all_results) :
       pc # "log" \/ k < Len(all_results) =>
         Called("log_snapshot", all_results[k].SnapshotId)
  /\ Cardinality(OpEvents("log_summary")) <= 1
  /\ Cardinality(OpEvents("send_report")) <= 1
  /\ SummaryEvents # {} =>
       /\ Cardinality(ScanEvents) = Len(Regions)
       /\ Len(all_results) = TotalInventory
       /\ Cardinality(OpEvents("log_snapshot")) = TotalInventory
  /\ \A i \in OpEvents("send_report") :
       \E j \in OpEvents("log_summary") : j < i
  /\ (pc = "done" /\ response.statusCode = 200) =>
       /\ Cardinality(OpEvents("log_summary")) = 1
       /\ Cardinality(OpEvents("send_report")) = 1

C13_Witness ==
  /\ pc = "done" /\ response.statusCode = 200
  /\ Len(inventory[1].items) = 1 /\ Len(inventory[2].items) = 1
  /\ CallResult("archive", <<1, 1>>, "ok")
  /\ CallResult("delete", <<1, 1>>, "failed")
  /\ CallResult("delete", <<2, 1>>, "ok")
  /\ Len(trace) = 10

====
